---- MODULE Spec2Model ----
(***************************************************************************)
(* A model of simple_calculator.cpp: the token stream with its pushback    *)
(* queue, the recursive-descent evaluator, the name environment and the    *)
(* environment loader.                                                     *)
(*                                                                         *)
(* Modelling conventions                                                   *)
(*  - std::cin is a sequence of lexemes (a character token, a number, an   *)
(*    alphanumeric word, a blank, a newline).  A read that finds cin empty *)
(*    blocks; a step of the program is taken once the input it needs has   *)
(*    been typed, so a blocked read shows as the pseudo error Blocked and  *)
(*    disables the step.                                                   *)
(*  - a double is an exact rational <<n, d>> in lowest terms with d > 0.   *)
(*    A result outside the bounds MaxNum/MaxDen, or a libm result that is  *)
(*    not rational, shows as the pseudo error Unrepresentable and disables *)
(*    the step.                                                            *)
(*  - a std::string holding a name is a sequence of one-character strings. *)
(*  - every parsing function takes the state st it reads and writes        *)
(*    ([buffer, cin, names, current_filename]) and returns it with its     *)
(*    value and the error it threw, if any.                                *)
(***************************************************************************)
EXTENDS Integers, Sequences, FiniteSets, TLC

VARIABLES
    names,              \* map<string,Value> names
    current_precision,  \* int current_precision
    current_filename,   \* string current_filename
    buffer,             \* Token_stream::buffer (ts)
    cin,                \* unread standard input
    files,              \* the file system: file name -> lines
    pc,                 \* where the program is: "calc", "load", "done" ...
    loadLines,          \* lines of the file being loaded that are not read yet
    out                 \* what the last step reported

vars == <<names, current_precision, current_filename, buffer, cin, files, pc,
          loadLines, out>>

(***************************************************************************)
(* Bounds of the model.                                                    *)
(***************************************************************************)
MaxNum == 20
MaxDen == 4
MaxPending == 2
MaxBuffer == 2
MaxFileLines == 2
MaxExprLen == 7
MaxNames == 3

(***************************************************************************)
(* double arithmetic, as exact rationals.                                  *)
(***************************************************************************)
Abs(n) == IF n < 0 THEN -n ELSE n

RECURSIVE GCD(_, _)
GCD(a, b) == IF b = 0 THEN a ELSE GCD(b, a % b)

Norm(n, d) ==
    LET g == GCD(Abs(n), Abs(d))
        s == IF d < 0 THEN -1 ELSE 1
    IN  <<(s * n) \div g, (s * d) \div g>>

Zero == <<0, 1>>
One == <<1, 1>>
Rat(n) == <<n, 1>>

Representable(v) == Abs(v[1]) <= MaxNum /\ v[2] >= 1 /\ v[2] <= MaxDen

Neg(a) == <<-a[1], a[2]>>
Add(a, b) == Norm(a[1] * b[2] + b[1] * a[2], a[2] * b[2])
Sub(a, b) == Norm(a[1] * b[2] - b[1] * a[2], a[2] * b[2])
Mul(a, b) == Norm(a[1] * b[1], a[2] * b[2])
\* only used with b # Zero
Div(a, b) == Norm(a[1] * b[2], a[2] * b[1])
\* truncation toward zero of n/d, d > 0
Trunc(n, d) == IF n >= 0 THEN n \div d ELSE -((-n) \div d)
\* fmod(a, b) = a - b * trunc(a / b), only used with b # Zero
fmod(a, b) ==
    LET q == Div(a, b)
    IN  Sub(a, Mul(b, Rat(Trunc(q[1], q[2]))))

RECURSIVE IntPow(_, _)
IntPow(a, k) == IF k = 0 THEN One ELSE Mul(a, IntPow(a, k - 1))

\* pow(d, dd) where the result is rational: an integer exponent.
PowDefined(a, b) == b[2] = 1 /\ (b[1] >= 0 \/ a # Zero) /\ Abs(b[1]) <= 4
pow(a, b) == IF b[1] >= 0 THEN IntPow(a, b[1]) ELSE Div(One, IntPow(a, -b[1]))

\* The unary libm functions, at the arguments where the result is rational.
LibmTable ==
    [sin   |-> {<<Zero, Zero>>},
     cos   |-> {<<Zero, One>>},
     tan   |-> {<<Zero, Zero>>},
     asin  |-> {<<Zero, Zero>>},
     acos  |-> {<<One, Zero>>},
     atan  |-> {<<Zero, Zero>>},
     exp   |-> {<<Zero, One>>},
     log   |-> {<<One, Zero>>},
     log10 |-> {<<One, Zero>>, <<Rat(10), One>>},
     log2  |-> {<<One, Zero>>, <<Rat(2), One>>, <<Rat(4), Rat(2)>>, <<Rat(8), Rat(3)>>,
                <<<<1, 2>>, Rat(-1)>>}]

LibmDefined(f, d) == \E p \in LibmTable[f] : p[1] = d
Libm(f, d) == (CHOOSE p \in LibmTable[f] : p[1] = d)[2]

(***************************************************************************)
(* Strings.                                                                *)
(***************************************************************************)
Letters == {"a", "b", "c", "d", "e", "f", "g", "h", "i", "j", "k", "l", "m", "n",
            "o", "p", "q", "r", "s", "t", "u", "v", "w", "x", "y", "z"}
Digits == {"0", "1", "2", "3", "4", "5", "6", "7", "8", "9"}
isalpha(ch) == ch \in Letters
isdigit(ch) == ch \in Digits

W_quit == <<"q", "u", "i", "t">>
W_const == <<"c", "o", "n", "s", "t">>
W_help == <<"h", "e", "l", "p">>
W_precision == <<"p", "r", "e", "c", "i", "s", "i", "o", "n">>
W_set == <<"s", "e", "t">>
W_show == <<"s", "h", "o", "w">>
W_save == <<"s", "a", "v", "e">>
W_load == <<"l", "o", "a", "d">>
W_env == <<"e", "n", "v">>
W_sin == <<"s", "i", "n">>
W_cos == <<"c", "o", "s">>
W_tan == <<"t", "a", "n">>
W_asin == <<"a", "s", "i", "n">>
W_acos == <<"a", "c", "o", "s">>
W_atan == <<"a", "t", "a", "n">>
W_exp == <<"e", "x", "p">>
W_pow == <<"p", "o", "w">>
W_ln == <<"l", "n">>
W_log10 == <<"l", "o", "g", "1", "0">>
W_log2 == <<"l", "o", "g", "2">>

(***************************************************************************)
(* Errors: error(s), error(s, s2) throw runtime_error(s + s2).  A message  *)
(* is the literal text with the name put before or after it.               *)
(***************************************************************************)
NoErr == [pre |-> <<>>, text |-> "", post |-> <<>>]
error(s) == [pre |-> <<>>, text |-> s, post |-> <<>>]
error_sn(s, n) == [pre |-> <<>>, text |-> s, post |-> n]
error_ns(n, s) == [pre |-> n, text |-> s, post |-> <<>>]

\* Not errors of the program: the step cannot be taken (yet).
Blocked == error("<blocked: waiting for input>")
Unrepresentable == error("<value outside the model's doubles>")
Thrown(e) == e # NoErr /\ e # Blocked /\ e # Unrepresentable

(***************************************************************************)
(* Lexemes of std::cin.                                                    *)
(***************************************************************************)
LxCh(c) == [k |-> "ch", c |-> c, v |-> Zero, s |-> <<>>]
LxNum(v) == [k |-> "num", c |-> "", v |-> v, s |-> <<>>]
LxWord(s) == [k |-> "word", c |-> "", v |-> Zero, s |-> s]
LxSP == [k |-> "sp", c |-> " ", v |-> Zero, s |-> <<>>]
LxNL == [k |-> "nl", c |-> "\n", v |-> Zero, s |-> <<>>]
isspace(lx) == lx.k \in {"sp", "nl"}

RECURSIVE SkipSpace(_)
SkipSpace(inp) ==
    IF inp # <<>> /\ isspace(Head(inp)) THEN SkipSpace(Tail(inp)) ELSE inp

(***************************************************************************)
(* struct Token                                                            *)
(***************************************************************************)
Token(kind, symbol, value, name, function) ==
    [kind |-> kind, symbol |-> symbol, value |-> value, name |-> name,
     function |-> function]
TokenNone == Token("none", "", Zero, <<>>, "nullptr")
TokenKind(tk) == Token(tk, "", Zero, <<>>, "nullptr")
TokenChar(ch) == Token("char_token", ch, Zero, <<>>, "nullptr")
TokenNumber(val) == Token("number", "", val, <<>>, "nullptr")
TokenName(str) == Token("name_token", "", Zero, str, "nullptr")
TokenFunction(str, f) == Token("function_token", "", Zero, str, f)

is_symbol(t, c) == t.kind = "char_token" /\ t.symbol = c
is_function(t) == t.kind = "function_token"

(***************************************************************************)
(* Results of the parsing functions: the state they leave, the value they  *)
(* return (or the token, for get) and the error they threw.                *)
(***************************************************************************)
Ret(st, val) == [st |-> st, val |-> val, err |-> NoErr]
Throw(st, e) == [st |-> st, val |-> Zero, err |-> e]
RetTok(st, tok) == [st |-> st, tok |-> tok, err |-> NoErr]
ThrowTok(st, e) == [st |-> st, tok |-> TokenNone, err |-> e]
\* a double result of the arithmetic, inside the model's doubles
RetNum(st, val) == IF Representable(val) THEN Ret(st, val) ELSE Throw(st, Unrepresentable)

(***************************************************************************)
(* read_word_after_keyword, read_filename                                  *)
(***************************************************************************)
AllAlpha(s) == \A i \in 1..Len(s) : isalpha(s[i])

ExpectedEnvAfter(keyword) ==
    CASE keyword = "show" -> error("\nExpected 'env' after 'show'\n")
      [] keyword = "save" -> error("\nExpected 'env' after 'save'\n")
      [] keyword = "load" -> error("\nExpected 'env' after 'load'\n")

ExpectedFilenameAfter(command) ==
    CASE command = "save" -> error("\nExpected filename after 'save'\n")
      [] command = "load" -> error("\nExpected filename after 'load'\n")

read_word_after_keyword(st, keyword) ==
    LET inp == SkipSpace(st.cin)
    IN  IF inp = <<>> THEN ThrowTok([st EXCEPT !.cin = <<>>], Blocked)
        ELSE LET lx == Head(inp)
             IN  IF lx.k = "word"
                 THEN IF Tail(inp) = <<>> THEN ThrowTok(st, Blocked)
                      ELSE IF ~AllAlpha(lx.s) THEN ThrowTok(st, Unrepresentable)
                      ELSE IF lx.s # W_env
                      THEN ThrowTok([st EXCEPT !.cin = Tail(inp)], ExpectedEnvAfter(keyword))
                      ELSE RetTok([st EXCEPT !.cin = Tail(inp)], TokenNone)
                 ELSE ThrowTok([st EXCEPT !.cin = inp], ExpectedEnvAfter(keyword))

\* a lexeme that would run on into the file name just read
ContinuesFilename(lx) ==
    lx.k \in {"word", "num"} \/ (lx.k = "ch" /\ lx.c \in {"_", ".", "-"})

read_filename(st, command) ==
    LET inp == SkipSpace(st.cin)
    IN  IF inp = <<>> THEN ThrowTok([st EXCEPT !.cin = <<>>], Blocked)
        ELSE LET lx == Head(inp)
             IN  IF lx.k = "word"
                 THEN IF Tail(inp) = <<>> THEN ThrowTok(st, Blocked)
                      ELSE IF ContinuesFilename(Head(Tail(inp)))
                      THEN ThrowTok(st, Unrepresentable)
                      ELSE RetTok([st EXCEPT !.cin = Tail(inp),
                                             !.current_filename = lx.s], TokenNone)
                 ELSE ThrowTok([st EXCEPT !.cin = Tail(inp)],
                               ExpectedFilenameAfter(command))

(***************************************************************************)
(* Token_stream::get, Token_stream::unget                                  *)
(***************************************************************************)
OperatorChars == {"(", ")", "+", "-", "*", "/", "%", "=", ","}

\* cin >> next after "set": the run of lexemes up to the next white space
RECURSIVE Chunk(_)
Chunk(inp) ==
    IF inp = <<>> \/ isspace(Head(inp)) THEN <<>> ELSE <<Head(inp)>> \o Chunk(Tail(inp))

LexSet(st) ==
    LET inp == SkipSpace(st.cin)
        next == Chunk(inp)
        rest == SubSeq(inp, Len(next) + 1, Len(inp))
    IN  IF rest = <<>> THEN ThrowTok(st, Blocked)
        ELSE IF next = <<LxWord(W_precision)>>
        THEN RetTok([st EXCEPT !.cin = rest], TokenKind("set_precision_token"))
        ELSE ThrowTok([st EXCEPT !.cin = rest], error("Expected 'precision' after 'set'"))

LexEnvCommand(st, keyword, kind) ==
    LET w == read_word_after_keyword(st, keyword)
    IN  IF w.err # NoErr THEN w
        ELSE IF keyword = "show" THEN RetTok(w.st, TokenKind(kind))
        ELSE LET f == read_filename(w.st, keyword)
             IN  IF f.err # NoErr THEN f ELSE RetTok(f.st, TokenKind(kind))

LexWord(st, s) ==
    CASE s = W_quit -> RetTok(st, TokenKind("quit"))
      [] s = W_const -> RetTok(st, TokenKind("const_token"))
      [] s = W_help -> RetTok(st, TokenKind("help_token"))
      [] s = W_precision -> RetTok(st, TokenKind("precision_token"))
      [] s = W_set -> LexSet(st)
      [] s = W_show -> LexEnvCommand(st, "show", "show_env_token")
      [] s = W_save -> LexEnvCommand(st, "save", "save_env_token")
      [] s = W_load -> LexEnvCommand(st, "load", "load_env_token")
      [] s = W_sin -> RetTok(st, TokenFunction(s, "sin"))
      [] s = W_cos -> RetTok(st, TokenFunction(s, "cos"))
      [] s = W_tan -> RetTok(st, TokenFunction(s, "tan"))
      [] s = W_asin -> RetTok(st, TokenFunction(s, "asin"))
      [] s = W_acos -> RetTok(st, TokenFunction(s, "acos"))
      [] s = W_atan -> RetTok(st, TokenFunction(s, "atan"))
      [] s = W_exp -> RetTok(st, TokenFunction(s, "exp"))
      [] s = W_pow -> RetTok(st, TokenFunction(s, "nullptr"))
      [] s = W_ln -> RetTok(st, TokenFunction(s, "log"))
      [] s = W_log10 -> RetTok(st, TokenFunction(s, "log10"))
      [] s = W_log2 -> RetTok(st, TokenFunction(s, "log2"))
      [] OTHER -> RetTok(st, TokenName(s))

get(st) ==
    IF st.buffer # <<>>
    THEN RetTok([st EXCEPT !.buffer = Tail(st.buffer)], Head(st.buffer))
    ELSE LET inp == SkipSpace(st.cin)
         IN  IF inp = <<>> THEN ThrowTok([st EXCEPT !.cin = <<>>], Blocked)
             ELSE LET lx == Head(inp)
                      s1 == [st EXCEPT !.cin = Tail(inp)]
                  IN  CASE lx.k = "ch" /\ lx.c \in OperatorChars -> RetTok(s1, TokenChar(lx.c))
                        [] lx.k = "ch" /\ lx.c = ";" -> RetTok(s1, TokenKind("print"))
                        [] lx.k = "ch" /\ lx.c \notin OperatorChars \cup {";"} ->
                               ThrowTok(s1, error("Bad token"))
                        [] lx.k = "num" ->
                               IF Tail(inp) = <<>> THEN ThrowTok(st, Blocked)
                               ELSE RetTok(s1, TokenNumber(lx.v))
                        [] lx.k = "word" ->
                               IF Tail(inp) = <<>> THEN ThrowTok(st, Blocked)
                               ELSE LexWord(s1, lx.s)

\* a faulty unget: the token goes in front of the pending tokens (a stack)
unget_front(st, t) == [st EXCEPT !.buffer = <<t>> \o st.buffer]

unget(st, t) == [st EXCEPT !.buffer = Append(st.buffer, t)]

(***************************************************************************)
(* struct Value and the environment: set_value, is_constant, is_declared,  *)
(* define_name (get_value is with the evaluator, which calls it).          *)
(***************************************************************************)
Value(n, v, is_constant) == [name |-> n, value |-> v, is_const |-> is_constant]

is_declared(nm, s) == s \in DOMAIN nm
is_constant(nm, s) == s \in DOMAIN nm /\ nm[s].is_const

\* a faulty define_name: the map is replaced by the new entry
define_name_alone(nm, s, d, constant) == [n \in {s} |-> Value(s, d, constant)]

define_name(nm, s, d, constant) ==
    [n \in DOMAIN nm \cup {s} |-> IF n = s THEN Value(s, d, constant) ELSE nm[n]]

\* set_value has no return after the store: control always reaches the last error().
set_value(st, s, d) ==
    IF s \in DOMAIN st.names
    THEN IF st.names[s].is_const THEN Throw(st, error_sn("set: const name ", s))
         ELSE Throw([st EXCEPT !.names[s].value = d],
                    error_sn("set: undefined name ", s))
    ELSE Throw(st, error_sn("set: undefined name ", s))

(***************************************************************************)
(* The evaluator: function_name, primary, term, expression.  The four      *)
(* functions call each other recursively, so the model runs them on an     *)
(* explicit call stack.  A frame is a function's activation: the place f   *)
(* it has reached and its locals (left or d, and the function token t).    *)
(* val is the value the last call returned.                                *)
(***************************************************************************)
Frame(f, left, t) == [f |-> f, left |-> left, t |-> t]
Enter(f) == Frame(f, Zero, TokenNone)

\* the current activation goes on at frame fr
Goto(m, st, fr) == [m EXCEPT !.st = st, !.stack = <<fr>> \o Tail(m.stack)]
\* the current activation calls function entry and goes on at frame fr after it
Call(m, st, fr, entry) ==
    [m EXCEPT !.st = st, !.stack = <<Enter(entry), fr>> \o Tail(m.stack)]
\* return v;
Return(m, st, v) == [m EXCEPT !.st = st, !.stack = Tail(m.stack), !.val = v]
\* error(...)
Raise(m, st, e) == [m EXCEPT !.st = st, !.err = e]
\* a double the arithmetic produced, inside the model's doubles
Num(m, v, next) == IF Representable(v) THEN next ELSE Raise(m, m.st, Unrepresentable)

\* double get_value(string s), called by primary
get_value(m, st, s) ==
    IF s \in DOMAIN st.names THEN Return(m, st, st.names[s].value)
    ELSE Raise(m, st, error_sn("get: undefined name ", s))

\* the call t.function(d) of a unary function
call_unary(m, st, t, d) ==
    IF LibmDefined(t.function, d) /\ Representable(Libm(t.function, d))
    THEN Return(m, st, Libm(t.function, d))
    ELSE Raise(m, st, Unrepresentable)

\* the call pow(d, dd)
call_pow(m, st, d, dd) ==
    IF PowDefined(d, dd) /\ Representable(pow(d, dd)) THEN Return(m, st, pow(d, dd))
    ELSE Raise(m, st, Unrepresentable)

\* function_name: Token t = ts.get(); ... Token tt = ts.get(); ... double d = expression();
function_name(m, g1, g2) ==
    IF g1.err # NoErr THEN Raise(m, g1.st, g1.err)
    ELSE IF ~is_function(g1.tok) THEN Raise(m, g1.st, error("function name expected"))
    ELSE IF g2.err # NoErr THEN Raise(m, g2.st, g2.err)
    ELSE IF ~is_symbol(g2.tok, "(") THEN Raise(m, g2.st, error("'(' expected"))
    ELSE Call(m, g2.st, Frame("function_first", Zero, g1.tok), "expression")

\* function_name after its first argument d: tt = ts.get(); if (tt.is_symbol(')')) ...
function_first(m, t, d, g) ==
    IF g.err # NoErr THEN Raise(m, g.st, g.err)
    ELSE IF is_symbol(g.tok, ")")
    THEN IF t.function # "nullptr" THEN call_unary(m, g.st, t, d)
         ELSE Raise(m, g.st, error_ns(t.name, " needs two arguments"))
    ELSE IF ~is_symbol(g.tok, ",") THEN Raise(m, g.st, error("')' expected"))
    ELSE Call(m, g.st, Frame("function_second", d, t), "expression")

\* a faulty function_second: the name is not compared with "pow"
function_second_any(m, t, d, dd, g) ==
    IF g.err # NoErr THEN Raise(m, g.st, g.err)
    ELSE IF is_symbol(g.tok, ")") THEN call_pow(m, g.st, d, dd)
    ELSE Raise(m, g.st, error("')' expected"))

\* function_name after its second argument dd: tt = ts.get(); if (tt.is_symbol(')')) ...
function_second(m, t, d, dd, g) ==
    IF g.err # NoErr THEN Raise(m, g.st, g.err)
    ELSE IF is_symbol(g.tok, ")")
    THEN IF t.name = W_pow THEN call_pow(m, g.st, d, dd)
         ELSE Raise(m, g.st, error_ns(t.name, " needs only one argument"))
    ELSE Raise(m, g.st, error("')' expected"))

\* primary: Token t = ts.get(); ...
primary(m, g) ==
    IF g.err # NoErr THEN Raise(m, g.st, g.err)
    ELSE IF is_function(g.tok)
    THEN Call(m, unget(g.st, g.tok), Enter("primary_return"), "function_name")
    ELSE IF g.tok.kind = "char_token"
    THEN IF is_symbol(g.tok, "(") THEN Call(m, g.st, Enter("primary_paren"), "expression")
         ELSE IF is_symbol(g.tok, "-") THEN Call(m, g.st, Enter("primary_minus"), "primary")
         ELSE IF is_symbol(g.tok, "+") THEN Call(m, g.st, Enter("primary_return"), "primary")
         ELSE Raise(m, g.st, error("primary expected"))
    ELSE IF g.tok.kind = "number" THEN Return(m, g.st, g.tok.value)
    ELSE IF g.tok.kind = "name_token"
    THEN get_value(m, g.st, g.tok.name)
    ELSE Raise(m, g.st, error("primary expected"))

\* primary after ( Expression: t = ts.get(); if (!t.is_symbol(')')) error; return d;
primary_paren(m, d, g) ==
    IF g.err # NoErr THEN Raise(m, g.st, g.err)
    ELSE IF ~is_symbol(g.tok, ")") THEN Raise(m, g.st, error("'(' expected"))
    ELSE Return(m, g.st, d)

\* the while(true) of term: Token t = ts.get(); ...
term_loop(m, left, g) ==
    IF g.err # NoErr THEN Raise(m, g.st, g.err)
    ELSE IF is_symbol(g.tok, "*") THEN Call(m, g.st, Frame("term_times", left, TokenNone), "primary")
    ELSE IF is_symbol(g.tok, "/") THEN Call(m, g.st, Frame("term_divide", left, TokenNone), "primary")
    ELSE IF is_symbol(g.tok, "%") THEN Call(m, g.st, Frame("term_modulo", left, TokenNone), "primary")
    ELSE Return(m, unget(g.st, g.tok), left)

\* left *= primary();
term_times(m, left, d) ==
    Num(m, Mul(left, d), Goto(m, m.st, Frame("term_loop", Mul(left, d), TokenNone)))

\* a faulty term_divide: 0 / 0 is let through
term_divide_nonzero_left(m, left, d) ==
    IF d = Zero /\ left # Zero THEN Raise(m, m.st, error("divide by zero"))
    ELSE IF d = Zero THEN Goto(m, m.st, Frame("term_loop", left, TokenNone))
    ELSE Num(m, Div(left, d), Goto(m, m.st, Frame("term_loop", Div(left, d), TokenNone)))

\* double d = primary(); if (d == 0) error("divide by zero"); left /= d;
term_divide(m, left, d) ==
    IF d = Zero THEN Raise(m, m.st, error("divide by zero"))
    ELSE Num(m, Div(left, d), Goto(m, m.st, Frame("term_loop", Div(left, d), TokenNone)))

\* double d = primary(); if (d == 0) error("divide by zero"); left = fmod(left, d);
term_modulo(m, left, d) ==
    IF d = Zero THEN Raise(m, m.st, error("divide by zero"))
    ELSE Num(m, fmod(left, d), Goto(m, m.st, Frame("term_loop", fmod(left, d), TokenNone)))

\* the while(true) of expression: Token t = ts.get(); ...
expression_loop(m, left, g) ==
    IF g.err # NoErr THEN Raise(m, g.st, g.err)
    ELSE IF is_symbol(g.tok, "+")
    THEN Call(m, g.st, Frame("expression_plus", left, TokenNone), "term")
    ELSE IF is_symbol(g.tok, "-")
    THEN Call(m, g.st, Frame("expression_minus", left, TokenNone), "term")
    ELSE Return(m, unget(g.st, g.tok), left)

\* left += term();
expression_plus(m, left, d) ==
    Num(m, Add(left, d), Goto(m, m.st, Frame("expression_loop", Add(left, d), TokenNone)))

\* a faulty expression_minus: left = term() - left
expression_minus_swapped(m, left, d) ==
    Num(m, Sub(d, left), Goto(m, m.st, Frame("expression_loop", Sub(d, left), TokenNone)))

\* left -= term();
expression_minus(m, left, d) ==
    Num(m, Sub(left, d), Goto(m, m.st, Frame("expression_loop", Sub(left, d), TokenNone)))

\* get(st) and then get() again, for two reads in a row
get2(g) == IF g.err # NoErr THEN g ELSE get(g.st)

\* the activation on top of the stack runs to its next call, return or error
step(m) ==
    LET fr == Head(m.stack)
        f == fr.f
    IN  CASE f = "expression" -> Call(m, m.st, Enter("expression_left"), "term")
          [] f = "expression_left" -> Goto(m, m.st, Frame("expression_loop", m.val, TokenNone))
          [] f = "expression_loop" -> expression_loop(m, fr.left, get(m.st))
          [] f = "expression_plus" -> expression_plus(m, fr.left, m.val)
          [] f = "expression_minus" -> expression_minus(m, fr.left, m.val)
          [] f = "term" -> Call(m, m.st, Enter("term_left"), "primary")
          [] f = "term_left" -> Goto(m, m.st, Frame("term_loop", m.val, TokenNone))
          [] f = "term_loop" -> term_loop(m, fr.left, get(m.st))
          [] f = "term_times" -> term_times(m, fr.left, m.val)
          [] f = "term_divide" -> term_divide(m, fr.left, m.val)
          [] f = "term_modulo" -> term_modulo(m, fr.left, m.val)
          [] f = "primary" -> primary(m, get(m.st))
          [] f = "primary_paren" -> primary_paren(m, m.val, get(m.st))
          [] f = "primary_minus" -> Return(m, m.st, Neg(m.val))
          [] f = "primary_return" -> Return(m, m.st, m.val)
          [] f = "function_name" -> function_name(m, get(m.st), get2(get(m.st)))
          [] f = "function_first" -> function_first(m, fr.t, m.val, get(m.st))
          [] f = "function_second" -> function_second(m, fr.t, fr.left, m.val, get(m.st))

RECURSIVE run(_)
run(m) == IF m.err # NoErr \/ m.stack = <<>> THEN m ELSE run(step(m))

Result(m) == [st |-> m.st, val |-> m.val, err |-> m.err]

\* double expression()
expression(st) ==
    Result(run([st |-> st, stack |-> <<Enter("expression")>>, val |-> Zero, err |-> NoErr]))

(***************************************************************************)
(* Statements: assign, constant_assign, statement.  Each function is cut   *)
(* at its calls: the part after a call takes what the call returned.       *)
(***************************************************************************)
\* set_value(name, d); return d;
assign_set(s, d) == IF s.err # NoErr THEN s ELSE Ret(s.st, d)

\* assign after double d = expression()
assign_store(e, name) ==
    IF e.err # NoErr THEN e
    ELSE IF is_declared(e.st.names, name) THEN assign_set(set_value(e.st, name, e.val), e.val)
    ELSE Ret([e.st EXCEPT !.names = define_name(e.st.names, name, e.val, FALSE)], e.val)

\* assign after the second t = ts.get()
assign_eq(g2, name) ==
    IF g2.err # NoErr THEN Throw(g2.st, g2.err)
    ELSE IF ~is_symbol(g2.tok, "=") THEN Throw(g2.st, error_sn("= missing in assign of ", name))
    ELSE assign_store(expression(g2.st), name)

\* a faulty assign: is_constant(name) is not asked
assign_name_unguarded(g1) ==
    IF g1.err # NoErr THEN Throw(g1.st, g1.err)
    ELSE IF g1.tok.kind # "name_token" THEN Throw(g1.st, error("name expected in assign"))
    ELSE assign_eq(get(g1.st), g1.tok.name)

\* assign after Token t = ts.get()
assign_name(g1) ==
    IF g1.err # NoErr THEN Throw(g1.st, g1.err)
    ELSE IF g1.tok.kind # "name_token" THEN Throw(g1.st, error("name expected in assign"))
    ELSE IF is_constant(g1.st.names, g1.tok.name)
    THEN Throw(g1.st, error_ns(g1.tok.name, " constant cannot be modified"))
    ELSE assign_eq(get(g1.st), g1.tok.name)

assign(st) == assign_name(get(st))

\* constant_assign after double d = expression()
constant_store(e, name) ==
    IF e.err # NoErr THEN e
    ELSE Ret([e.st EXCEPT !.names = define_name(e.st.names, name, e.val, TRUE)], e.val)

\* constant_assign after the second t = ts.get()
constant_eq(g2, name) ==
    IF g2.err # NoErr THEN Throw(g2.st, g2.err)
    ELSE IF ~is_symbol(g2.tok, "=") THEN Throw(g2.st, error_sn("= missing in assign of ", name))
    ELSE constant_store(expression(g2.st), name)

\* a faulty constant_assign: is_declared(name) is not asked
constant_name_unguarded(g1) ==
    IF g1.err # NoErr THEN Throw(g1.st, g1.err)
    ELSE IF g1.tok.kind # "name_token" THEN Throw(g1.st, error("name expected in const assign"))
    ELSE constant_eq(get(g1.st), g1.tok.name)

\* constant_assign after Token t = ts.get()
constant_name(g1) ==
    IF g1.err # NoErr THEN Throw(g1.st, g1.err)
    ELSE IF g1.tok.kind # "name_token" THEN Throw(g1.st, error("name expected in const assign"))
    ELSE IF is_declared(g1.st.names, g1.tok.name)
    THEN Throw(g1.st, error_ns(g1.tok.name, " has already been defined"))
    ELSE constant_eq(get(g1.st), g1.tok.name)

constant_assign(st) == constant_name(get(st))

\* a faulty statement: tt is pushed back before t
statement_name_swapped(t, g) ==
    IF g.err # NoErr THEN Throw(g.st, g.err)
    ELSE IF is_symbol(g.tok, "=") THEN assign(unget(unget(g.st, g.tok), t))
    ELSE expression(unget(unget(g.st, g.tok), t))

\* statement, case name_token, after Token tt = ts.get()
statement_name(t, g) ==
    IF g.err # NoErr THEN Throw(g.st, g.err)
    ELSE IF is_symbol(g.tok, "=") THEN assign(unget(unget(g.st, t), g.tok))
    ELSE expression(unget(unget(g.st, t), g.tok))

\* statement after Token t = ts.get()
statement_switch(g) ==
    IF g.err # NoErr THEN Throw(g.st, g.err)
    ELSE IF g.tok.kind = "const_token" THEN constant_assign(g.st)
    ELSE IF g.tok.kind = "name_token" THEN statement_name(g.tok, get(g.st))
    ELSE expression(unget(g.st, g.tok))

statement(st) == statement_switch(get(st))

(***************************************************************************)
(* Token_stream::ignore (clean_up_mess)                                    *)
(***************************************************************************)
\* while(!buffer.empty()) { t = front; pop; if (t.kind == quit) return; }
RECURSIVE ignore_buffer(_)
ignore_buffer(buf) ==
    IF buf = <<>> THEN [buffer |-> <<>>, returned |-> FALSE]
    ELSE IF Head(buf).kind = "quit" THEN [buffer |-> Tail(buf), returned |-> TRUE]
    ELSE ignore_buffer(Tail(buf))

\* while (cin >> ch) if (ch == ';') return;   (<<>> when no ';' has been typed yet)
RECURSIVE ignore_cin(_)
ignore_cin(inp) ==
    IF inp = <<>> THEN <<>>
    ELSE IF Head(inp) = LxCh(";") THEN <<Tail(inp)>>
    ELSE ignore_cin(Tail(inp))

ignore(st) ==
    LET b == ignore_buffer(st.buffer)
        c == ignore_cin(st.cin)
    IN  IF b.returned THEN RetTok([st EXCEPT !.buffer = b.buffer], TokenNone)
        ELSE IF c = <<>> THEN ThrowTok([st EXCEPT !.buffer = <<>>, !.cin = <<>>], Blocked)
        ELSE RetTok([st EXCEPT !.buffer = <<>>, !.cin = c[1]], TokenNone)

(***************************************************************************)
(* The numbered menus: cin.clear(); cin.ignore(max, '\n'); cin >> option;  *)
(***************************************************************************)
\* cin.ignore(numeric_limits<streamsize>::max(), '\n')
RECURSIVE DropLine(_)
DropLine(inp) ==
    IF inp = <<>> THEN <<>>
    ELSE IF Head(inp) = LxNL THEN <<Tail(inp)>>
    ELSE DropLine(Tail(inp))

\* One pass of a menu loop.  option 0 is a failed extraction.
read_option(inp) ==
    LET d == DropLine(inp)
        c == IF d = <<>> THEN <<>> ELSE SkipSpace(d[1])
    IN  IF c = <<>> THEN [cin |-> <<>>, option |-> 0, err |-> Blocked]
        ELSE IF Head(c).k = "num"
        THEN IF Tail(c) = <<>> THEN [cin |-> inp, option |-> 0, err |-> Blocked]
             ELSE IF Head(c).v[2] # 1
             THEN [cin |-> inp, option |-> 0, err |-> Unrepresentable]
             ELSE [cin |-> Tail(c), option |-> Head(c).v[1], err |-> NoErr]
        ELSE IF Head(c).k = "ch" /\ Head(c).c \in {"+", "-"}
        THEN [cin |-> inp, option |-> 0, err |-> Unrepresentable]
        ELSE [cin |-> c, option |-> 0, err |-> NoErr]

\* while (loop) { ... switch (option) ... default: ask again }
RECURSIVE menu(_, _)
menu(inp, valid) ==
    LET r == read_option(inp)
    IN  IF r.err # NoErr \/ r.option \in valid THEN r ELSE menu(r.cin, valid)

(***************************************************************************)
(* Files: a file is a sequence of lines, a line a sequence of the fields   *)
(* that white space separates.                                             *)
(***************************************************************************)
FieldText(f) == IF f.k = "ch" THEN <<f.c>> ELSE f.s
T_Precision == <<"P", "r", "e", "c", "i", "s", "i", "o", "n">>
T_is_const == <<"i", "s", "_", "c", "o", "n", "s", "t">>
T_file == <<"_", "f", "i", "l", "e">>

\* std::to_string(int), n >= 0
DigitOf(k) == <<"0", "1", "2", "3", "4", "5", "6", "7", "8", "9">>[k + 1]
RECURSIVE to_string(_)
to_string(n) == IF n < 10 THEN <<DigitOf(n)>> ELSE to_string(n \div 10) \o <<DigitOf(n % 10)>>

\* std::string operator< : by character code
CharOrder ==
    <<"0", "1", "2", "3", "4", "5", "6", "7", "8", "9", "P", "_",
      "a", "b", "c", "d", "e", "f", "g", "h", "i", "j", "k", "l", "m", "n",
      "o", "p", "q", "r", "s", "t", "u", "v", "w", "x", "y", "z">>
CharCode(ch) == CHOOSE i \in 1..Len(CharOrder) : CharOrder[i] = ch

RECURSIVE StringLess(_, _)
StringLess(a, b) ==
    IF b = <<>> THEN FALSE
    ELSE IF a = <<>> THEN TRUE
    ELSE IF Head(a) # Head(b) THEN CharCode(Head(a)) < CharCode(Head(b))
    ELSE StringLess(Tail(a), Tail(b))

\* iteration over map<string,Value>: the keys in increasing order
RECURSIVE Keys(_)
Keys(S) ==
    IF S = {} THEN <<>>
    ELSE LET m == CHOOSE a \in S : \A b \in S \ {a} : StringLess(a, b)
         IN  <<m>> \o Keys(S \ {m})

(***************************************************************************)
(* out << val.value with ios::fixed and precision(p): the number that the  *)
(* written text reads back as.                                             *)
(***************************************************************************)
RECURSIVE Pow10(_)
Pow10(p) == IF p = 0 THEN 1 ELSE 10 * Pow10(p - 1)

\* the digits the model can compute exactly
FixedDefined(v, p) == p <= 6 \/ Pow10(6) % v[2] = 0

Fixed(v, p) ==
    IF p > 6 THEN v
    ELSE LET scaled == Abs(v[1]) * Pow10(p)
             q == scaled \div v[2]
             r == scaled % v[2]
             up == 2 * r > v[2] \/ (2 * r = v[2] /\ q % 2 = 1)
             m == IF up THEN q + 1 ELSE q
         IN  Norm(IF v[1] < 0 THEN -m ELSE m, Pow10(p))

(***************************************************************************)
(* One pass of the loop of calculate(): the try block, then the handler.   *)
(* A Step is what the pass leaves behind.                                  *)
(***************************************************************************)
Step(st, prec, fs, p, ll, event, val, err) ==
    [st |-> st, precision |-> prec, files |-> fs, pc |-> p, loadLines |-> ll,
     event |-> event, val |-> val, err |-> err]

\* void set_precision(), after Token t = ts.get()
set_precision_number(g, digits, prec, fs) ==
    IF g.err # NoErr THEN Step(g.st, prec, fs, "calc", <<>>, "set_precision", Zero, g.err)
    ELSE IF g.tok.kind # "number"
    THEN Step(g.st, prec, fs, "calc", <<>>, "set_precision", Zero,
              error("Expected a number after 'set precision'"))
    ELSE IF digits < 0 \/ digits > 20
    THEN Step(g.st, prec, fs, "calc", <<>>, "set_precision", Zero,
              error("Precision must be between 0 and 20"))
    ELSE Step(g.st, digits, fs, "calc", <<>>, "set_precision", Rat(digits), NoErr)

\* the range of int
IntMax == 2147483647
IntMin == -IntMax - 1

\* a finite double beyond the range of int, such as 1e10; the rationals of the model
\* stop before it, so it is a value of its own
Huge == <<2, 0>>

\* a faulty to_int: a value with a fraction is no precision
to_int_whole(v, cast) == IF v = Huge THEN cast ELSE IF v[2] = 1 THEN v[1] ELSE -1

\* static_cast<int>(t.value): truncation toward zero; the behaviour is undefined when
\* the truncated value is not in the range of int, and cast is what it gives then
to_int(v, cast) == IF v = Huge THEN cast ELSE Trunc(v[1], v[2])

\* void set_precision(): "set precision Number"
set_precision_tok(g, prec, fs, cast) ==
    set_precision_number(g, to_int(g.tok.value, cast), prec, fs)
set_precision(st, prec, fs, cast) == set_precision_tok(get(st), prec, fs, cast)

show_env(st, prec, fs) ==
    IF DOMAIN st.names = {}
    THEN Step(st, prec, fs, "calc", <<>>, "show_env", Zero, error("\nshow env: (none)\n"))
    ELSE Step(st, prec, fs, "calc", <<>>, "show_env", Zero, NoErr)

\* A double that is not finite: exp(1000), pow(10, 400) and ln(0) return HUGE_VAL,
\* which the arithmetic of term and expression passes on.
Inf == <<1, 0>>
IsFinite(v) == v # Inf

\* out << val.value: a finite value in fixed notation, else the text inf or -inf,
\* which stream >> value does not read back as a number
T_inf == <<"i", "n", "f">>
written_value(v, save_precision) ==
    IF IsFinite(v) THEN LxNum(Fixed(v, save_precision))
    ELSE LxWord(T_inf)

\* a faulty saved_line: the const flag is written as 0
saved_line_flagless(nm, key, save_precision) ==
    <<LxWord(key), LxCh("="), written_value(nm[key].value, save_precision),
      LxWord(T_is_const), LxCh("="), LxNum(Zero)>>

\* the line save_env writes for a name
saved_line(nm, key, save_precision) ==
    <<LxWord(key), LxCh("="), written_value(nm[key].value, save_precision),
      LxWord(T_is_const), LxCh("="), LxNum(IF nm[key].is_const THEN One ELSE Zero)>>

saved_file(nm, save_precision) ==
    LET keys == Keys(DOMAIN nm)
    IN  <<<<LxWord(T_Precision), LxCh("="), LxNum(Rat(save_precision))>>>>
        \o [i \in 1..Len(keys) |-> saved_line(nm, keys[i], save_precision)]

\* save_env after the menu
save_env_write(st, m, save_precision, prec, fs) ==
    IF m.err # NoErr
    THEN Step([st EXCEPT !.cin = m.cin], prec, fs, "calc", <<>>, "save_env", Zero, m.err)
    ELSE IF \E k \in DOMAIN st.names :
                 IsFinite(st.names[k].value) /\ ~FixedDefined(st.names[k].value, save_precision)
    THEN Step([st EXCEPT !.cin = m.cin], prec, fs, "calc", <<>>, "save_env", Zero,
              Unrepresentable)
    ELSE Step([st EXCEPT !.cin = m.cin], prec,
              [f \in DOMAIN fs \cup {st.current_filename} |->
                  IF f = st.current_filename THEN saved_file(st.names, save_precision)
                  ELSE fs[f]],
              "calc", <<>>, "save_env", Rat(save_precision), NoErr)

\* switch (option) { case 1: save_precision = 6; ... }
save_option(option) == CASE option = 1 -> 6 [] option = 2 -> 12 [] OTHER -> 19

save_env_menu(st, m, prec, fs) == save_env_write(st, m, save_option(m.option), prec, fs)

save_env(st, prec, fs) ==
    IF DOMAIN st.names = {}
    THEN Step(st, prec, fs, "calc", <<>>, "save_env", Zero,
              error("\nsave env: No variables or constants to save.\n"))
    ELSE save_env_menu(st, menu(st.cin, {1, 2, 3}), prec, fs)

\* a faulty set_precision(int): the range is not checked
set_precision_int_unchecked(st, prec, fs, ll, digits) ==
    Step(st, digits, fs, "load", ll, "load_env", Rat(digits), NoErr)

\* void set_precision(int digits)
set_precision_int(st, prec, fs, ll, digits) ==
    IF digits < 0 \/ digits > 20
    THEN Step(st, prec, fs, "calc", <<>>, "load_env", Zero,
              error("Precision must be between 0 and 20"))
    ELSE Step(st, digits, fs, "load", ll, "load_env", Rat(digits), NoErr)

\* header >> label >> eq >> file_precision; u is what an int that was never
\* written holds
header_precision(header, u) ==
    IF Len(header) < 3 THEN u
    ELSE IF header[3].k = "num" THEN Trunc(header[3].v[1], header[3].v[2])
    ELSE 0

\* load_env after the menu of the header
load_env_menu(st, m, lines, prec, fs, u) ==
    IF m.err # NoErr
    THEN Step([st EXCEPT !.cin = m.cin], prec, fs, "calc", <<>>, "load_env", Zero, m.err)
    ELSE IF m.option = 1
    THEN set_precision_int([st EXCEPT !.cin = m.cin], prec, fs, Tail(lines),
                           header_precision(Head(lines), u))
    ELSE Step([st EXCEPT !.cin = m.cin], prec, fs, "load", Tail(lines), "load_env", Zero,
              NoErr)

\* load_env up to the loop over the entries
load_env(st, prec, fs, u) ==
    IF st.current_filename \notin DOMAIN fs
    THEN Step(st, prec, fs, "calc", <<>>, "load_env", Zero,
              error("\nload env: Could not open file for reading\n"))
    ELSE IF fs[st.current_filename] = <<>>
    THEN Step(st, prec, fs, "load", <<>>, "load_env", Zero, NoErr)
    ELSE load_env_menu(st, menu(st.cin, {1, 2}), fs[st.current_filename], prec, fs, u)

\* auto the_result = statement(); cout << result << the_result
statement_result(r, prec, fs) ==
    Step(r.st, prec, fs, "calc", <<>>, "statement", r.val, r.err)

run_statement(st, prec, fs) == statement_result(statement(st), prec, fs)

\* Token t = ts.get(); while (t.kind == print) t = ts.get();
RECURSIVE skip_print(_)
skip_print(g) ==
    IF g.err = NoErr /\ g.tok.kind = "print" THEN skip_print(get(g.st)) ELSE g

\* the try block after the first token
calculate_switch(g, k, prec, fs, u) ==
    IF g.err # NoErr THEN Step(g.st, prec, fs, "calc", <<>>, "get", Zero, g.err)
    ELSE CASE k = "quit" -> Step(g.st, prec, fs, "done", <<>>, "quit", Zero, NoErr)
           [] k = "help_token" -> Step(g.st, prec, fs, "calc", <<>>, "help", Zero, NoErr)
           [] k = "set_precision_token" -> set_precision(g.st, prec, fs, u.cast)
           [] k = "precision_token" ->
                  Step(g.st, prec, fs, "calc", <<>>, "show_precision", Rat(prec), NoErr)
           [] k = "show_env_token" -> show_env(g.st, prec, fs)
           [] k = "save_env_token" -> save_env(g.st, prec, fs)
           [] k = "load_env_token" -> load_env(g.st, prec, fs, u.uninit)
           [] OTHER -> run_statement(unget(g.st, g.tok), prec, fs)

calculate_tok(g, prec, fs, u) == calculate_switch(g, g.tok.kind, prec, fs, u)

calculate_try(st, prec, fs, u) == calculate_tok(skip_print(get(st)), prec, fs, u)

\* catch(runtime_error& e) { cerr << e.what() << endl; clean_up_mess(); }
calculate_ignore(b, i) ==
    [b EXCEPT !.st = i.st, !.pc = IF i.err = NoErr THEN "calc" ELSE "blocked"]

calculate_catch(b) == IF Thrown(b.err) THEN calculate_ignore(b, ignore(b.st)) ELSE b

calculate(st, prec, fs, u) == calculate_catch(calculate_try(st, prec, fs, u))

(***************************************************************************)
(* The loop of load_env over the entries of the file, one entry a step.    *)
(***************************************************************************)
\* stream >> name >> eq >> value >> is_const_str >> eq >> is_const
\* uv, ub: what a double and an int that were never written hold
parse_line(line, uv, ub) ==
    LET n == Len(line)
        good == n >= 3 /\ line[3].k = "num"
    IN  [name |-> IF n >= 1 THEN FieldText(line[1]) ELSE <<>>,
         value |-> IF n < 3 THEN uv ELSE IF good THEN line[3].v ELSE Zero,
         is_const |-> IF n >= 6 /\ good
                      THEN line[6].k = "num" /\ Trunc(line[6].v[1], line[6].v[2]) # 0
                      ELSE ub]

\* a faulty rename: the loop body runs once
fresh_name_once(nm, name, rename_attempts) == name \o T_file

\* a faulty rename: another suffix
fresh_name_copy(nm, name, rename_attempts) == name \o <<"_", "c", "o", "p", "y">>

\* a faulty rename: the new name is the name of the entry itself
fresh_name_same(nm, name, rename_attempts) == name

\* do { new_name = name + "_file"; if (rename_attempts > 0) new_name +=
\* to_string(rename_attempts); rename_attempts++; } while (is_declared(new_name));
RECURSIVE fresh_name(_, _, _)
fresh_name(nm, name, rename_attempts) ==
    LET new_name == name \o T_file
                    \o (IF rename_attempts > 0 THEN to_string(rename_attempts) ELSE <<>>)
    IN  IF is_declared(nm, new_name) THEN fresh_name(nm, name, rename_attempts + 1)
        ELSE new_name

Loaded(nm, inp, event, e, target, err) ==
    [names |-> nm, cin |-> inp, event |-> event, name |-> e.name, value |-> e.value,
     is_const |-> e.is_const, target |-> target, err |-> err]

\* a faulty switch: case 1 falls through to case 2
resolve_fallthrough(nm, inp, e, option) ==
    CASE option = 1 ->
             Loaded(define_name(nm, e.name, e.value, e.is_const), inp, "keep", e, e.name,
                    NoErr)
      [] option = 2 ->
             Loaded(define_name(nm, e.name, e.value, e.is_const), inp, "overwrite", e,
                    e.name, NoErr)
      [] option = 3 ->
             Loaded(define_name(nm, fresh_name(nm, e.name, 0), e.value, e.is_const), inp,
                    "rename", e, fresh_name(nm, e.name, 0), NoErr)

\* the switch (option) of a conflict
resolve(nm, inp, e, option) ==
    CASE option = 1 -> Loaded(nm, inp, "keep", e, e.name, NoErr)
      [] option = 2 ->
             Loaded(define_name(nm, e.name, e.value, e.is_const), inp, "overwrite", e,
                    e.name, NoErr)
      [] option = 3 ->
             Loaded(define_name(nm, fresh_name(nm, e.name, 0), e.value, e.is_const), inp,
                    "rename", e, fresh_name(nm, e.name, 0), NoErr)

\* a conflict, after the menu
load_conflict(nm, e, m) ==
    IF m.err # NoErr THEN Loaded(nm, m.cin, "conflict", e, e.name, m.err)
    ELSE resolve(nm, m.cin, e, m.option)

\* a faulty loop body: a declared name is defined again without the menu
load_parsed_replacing(nm, inp, line, e) ==
    IF line # <<>> /\ line[1].k = "num" THEN Loaded(nm, inp, "skip", e, <<>>, Unrepresentable)
    ELSE IF e.name = <<>> THEN Loaded(nm, inp, "skip", e, <<>>, NoErr)
    ELSE Loaded(define_name(nm, e.name, e.value, e.is_const), inp, "define", e, e.name, NoErr)

\* one pass of while (getline(in, line)), after the line is parsed
load_parsed(nm, inp, line, e) ==
    IF line # <<>> /\ line[1].k = "num" THEN Loaded(nm, inp, "skip", e, <<>>, Unrepresentable)
    ELSE IF e.name = <<>> THEN Loaded(nm, inp, "skip", e, <<>>, NoErr)
    ELSE IF ~is_declared(nm, e.name)
    THEN Loaded(define_name(nm, e.name, e.value, e.is_const), inp, "define", e, e.name,
                NoErr)
    ELSE load_conflict(nm, e, menu(inp, {1, 2, 3}))

load_entry(nm, inp, line, uv, ub) == load_parsed(nm, inp, line, parse_line(line, uv, ub))

(***************************************************************************)
(* What a step reports (cout, cerr), with what the step was about.         *)
(***************************************************************************)
OutNone ==
    [event |-> "none", val |-> Zero, err |-> NoErr, name |-> <<>>, is_const |-> FALSE,
     target |-> <<>>, input |-> <<>>, tok |-> TokenNone]

StateOf(b, c, nm, fname) ==
    [buffer |-> b, cin |-> c, names |-> nm, current_filename |-> fname]

Runs(e) == e # Blocked /\ e # Unrepresentable

(***************************************************************************)
(* The session: the user types lines, the program runs calculate().        *)
(***************************************************************************)
X == <<"x">>
Y == <<"y">>
F == <<"f">>
End == <<LxCh(";")>>

Assign(n, e) == <<LxWord(n), LxCh("=")>> \o e \o End
Const(n, e) == <<LxWord(W_const), LxSP, LxWord(n), LxCh("=")>> \o e \o End
LoadEnv(f) == <<LxWord(W_load), LxSP, LxWord(W_env), LxSP, LxWord(f)>> \o End

\* the lines of a session of statements
StatementExprs ==
    { <<LxNum(One)>>,
      <<LxNum(Rat(2))>>,
      <<LxWord(Y)>>,
      <<LxNum(Rat(3)), LxCh("-"), LxWord(X)>>,
      <<LxNum(One), LxCh("/"), LxNum(Zero)>> }

StatementLines ==
    { Assign(n, e) : n \in {X, Y}, e \in StatementExprs }
    \cup { Const(n, e) : n \in {X, Y}, e \in StatementExprs }
    \cup { e \o End : e \in StatementExprs }
    \cup { <<LxWord(W_quit)>> }

\* the lines of a session that loads files
SessionLines ==
    { Assign(X, <<LxNum(One)>>), Const(X, <<LxNum(Rat(2))>>), LoadEnv(F),
      <<LxWord(W_quit)>> }
    \cup { <<LxNum(Rat(k))>> : k \in 1..3 }

\* the lines a file may hold when the session starts
Entry(n, v, c) ==
    <<LxWord(n), LxCh("="), LxNum(v), LxWord(T_is_const), LxCh("="), LxNum(Rat(c))>>

FileLines == { Entry(X, Rat(5), 0), Entry(X, Rat(7), 1), <<LxWord(Y)>> }

Header(p) == <<LxWord(T_Precision), LxCh("="), LxNum(Rat(p))>>

RECURSIVE SeqsUpTo(_, _)
SeqsUpTo(S, n) ==
    IF n = 0 THEN {<<>>}
    ELSE LET shorter == SeqsUpTo(S, n - 1)
         IN  shorter \cup { Append(q, x) : q \in shorter, x \in S }

InitialFiles == { <<Header(6)>> \o body : body \in SeqsUpTo(FileLines, MaxFileLines) }

\* what one pass of calculate may meet where the language leaves the value open: an
\* int that was never written (load_env's file_precision) and the int a cast of a
\* double beyond the range of int gives (INT_MIN on x86, INT_MAX where the
\* conversion saturates); a pass reads at most one of the two
Indeterminate == {[uninit |-> -1, cast |-> IntMin], [uninit |-> 7, cast |-> IntMax]}
UninitDoubles == {Zero, Rat(9)}

\* the lines typed and not read yet (the end of a line that was read is no line)
Newlines(inp) == Cardinality({i \in 1..Len(inp) : inp[i] = LxNL})
PendingLines(inp) == Newlines(SkipSpace(inp))

Init ==
    /\ names = <<>>
    /\ current_precision = 6
    /\ current_filename = <<>>
    /\ buffer = <<>>
    /\ cin = <<>>
    /\ files \in { [f \in {F} |-> content] : content \in InitialFiles }
    /\ pc = "calc"
    /\ loadLines = <<>>
    /\ out = OutNone

\* the user types a line and presses return
TypeLine(lines) ==
    /\ pc \in {"calc", "load"}
    /\ PendingLines(cin) < MaxPending
    /\ \E line \in lines : cin' = cin \o line \o <<LxNL>>
    /\ out' = [OutNone EXCEPT !.event = "typed"]
    /\ UNCHANGED <<names, current_precision, current_filename, buffer, files, pc, loadLines>>

Type == TypeLine(SessionLines)

\* one pass of the loop of calculate()
CalculateDone(r) ==
    /\ Runs(r.err)
    /\ r.pc # "blocked"
    /\ Cardinality(DOMAIN r.st.names) <= MaxNames
    /\ names' = r.st.names
    /\ current_precision' = r.precision
    /\ current_filename' = r.st.current_filename
    /\ buffer' = r.st.buffer
    /\ cin' = r.st.cin
    /\ files' = r.files
    /\ pc' = r.pc
    /\ loadLines' = r.loadLines
    /\ out' = [OutNone EXCEPT !.event = r.event, !.val = r.val, !.err = r.err]

Calculate ==
    /\ pc = "calc"
    /\ \E u \in Indeterminate :
         CalculateDone(calculate(StateOf(buffer, cin, names, current_filename),
                                 current_precision, files, u))

\* one pass of the loop of load_env() over the entries
LoadLineDone(r) ==
    /\ Runs(r.err)
    /\ Cardinality(DOMAIN r.names) <= MaxNames
    /\ names' = r.names
    /\ cin' = r.cin
    /\ loadLines' = Tail(loadLines)
    /\ out' = [OutNone EXCEPT !.event = r.event, !.val = r.value, !.name = r.name,
                             !.is_const = r.is_const, !.target = r.target]

LoadLine ==
    /\ pc = "load"
    /\ loadLines # <<>>
    /\ \E uv \in UninitDoubles, ub \in BOOLEAN :
         LoadLineDone(load_entry(names, cin, Head(loadLines), uv, ub))
    /\ UNCHANGED <<current_precision, current_filename, buffer, files, pc>>

\* in.close(); "Environment loaded from ..."
LoadEnd ==
    /\ pc = "load"
    /\ loadLines = <<>>
    /\ pc' = "calc"
    /\ out' = [OutNone EXCEPT !.event = "loaded"]
    /\ UNCHANGED <<names, current_precision, current_filename, buffer, cin, files, loadLines>>

Next == Type \/ Calculate \/ LoadLine \/ LoadEnd

Spec == Init /\ [][Next]_vars

(***************************************************************************)
(* A session of statements only, with no file to load.                     *)
(***************************************************************************)
InitStatements ==
    /\ names = <<>>
    /\ current_precision = 6
    /\ current_filename = <<>>
    /\ buffer = <<>>
    /\ cin = <<>>
    /\ files = <<>>
    /\ pc = "calc"
    /\ loadLines = <<>>
    /\ out = OutNone

TypeStatement == TypeLine(StatementLines)

NextStatements == TypeStatement \/ Calculate

SpecStatements == InitStatements /\ [][NextStatements]_vars

(***************************************************************************)
(* Properties of statements (SpecStatements).                              *)
(***************************************************************************)
\* the input after the separators that calculate() skips
RECURSIVE SkipDone(_)
SkipDone(inp) ==
    IF inp # <<>> /\ (isspace(Head(inp)) \/ Head(inp) = LxCh(";")) THEN SkipDone(Tail(inp))
    ELSE inp

OnlyPrint(buf) == \A i \in 1..Len(buf) : buf[i].kind = "print"

\* the statement the next pass of calculate() reads
Pending == SkipDone(cin)

AssignPending(n) ==
    /\ OnlyPrint(buffer)
    /\ Len(Pending) >= 2
    /\ Pending[1] = LxWord(n)
    /\ Pending[2] = LxCh("=")

ConstPending(n) ==
    /\ OnlyPrint(buffer)
    /\ Len(Pending) >= 4
    /\ Pending[1] = LxWord(W_const)
    /\ Pending[3] = LxWord(n)
    /\ Pending[4] = LxCh("=")

\* the expression that starts at lexeme k of the pending statement, in this environment
RightSide(k) ==
    expression(StateOf(<<>>, SubSeq(Pending, k, Len(Pending)), names, current_filename))

\* a pass of calculate() that ran statement()
StatementStep == pc = "calc" /\ out'.event = "statement"

\* the input after the first ';'
AfterStatement(inp) == IF ignore_cin(inp) = <<>> THEN <<>> ELSE ignore_cin(inp)[1]

\* C1: an assignment NAME = expression to a declared name that is not const raises
\* no error, stores the expression's value in the entry, keeps it non-const and
\* returns the value.
C1_AssignDeclaredSucceeds ==
    [][\A n \in {X, Y} :
         (/\ StatementStep
          /\ AssignPending(n)
          /\ is_declared(names, n)
          /\ ~is_constant(names, n)
          /\ RightSide(3).err = NoErr)
         => (/\ out'.err = NoErr
             /\ out'.val = RightSide(3).val
             /\ names'[n] = Value(n, RightSide(3).val, FALSE))]_vars

\* C1: what the code does: the value is stored and then "set: undefined name" is thrown
C1_StoredAndThrown ==
    /\ out.event = "statement"
    /\ out.err = error_sn("set: undefined name ", X)
    /\ is_declared(names, X)
    /\ names[X] = Value(X, Rat(2), FALSE)

\* C2: an assignment to a name that is a const entry fails with "constant cannot be
\* modified", and the entry is the same after the failure as before it.
C2_AssignConstFails ==
    [][\A n \in {X, Y} :
         (StatementStep /\ AssignPending(n) /\ is_constant(names, n))
         => (/\ out'.err = error_ns(n, " constant cannot be modified")
             /\ is_declared(names', n)
             /\ names'[n] = names[n])]_vars

C2_ConstAssignmentRefused ==
    /\ out.event = "statement"
    /\ out.err = error_ns(X, " constant cannot be modified")
    /\ is_constant(names, X)

\* C3: const NAME = expression fails with "has already been defined" when NAME is
\* declared, const or not, and leaves the entry as it was; when NAME is not declared
\* it defines NAME as a const entry with the expression's value and returns the value.
C3_ConstDeclaration ==
    [][\A n \in {X, Y} :
         (StatementStep /\ ConstPending(n))
         => IF is_declared(names, n)
            THEN /\ out'.err = error_ns(n, " has already been defined")
                 /\ is_declared(names', n)
                 /\ names'[n] = names[n]
            ELSE RightSide(5).err = NoErr
                 => (/\ out'.err = NoErr
                     /\ out'.val = RightSide(5).val
                     /\ is_declared(names', n)
                     /\ names'[n] = Value(n, RightSide(5).val, TRUE))]_vars

C3_DuplicateRefused ==
    /\ out.event = "statement"
    /\ out.err = error_ns(Y, " has already been defined")
    /\ is_declared(names, Y)
    /\ ~is_constant(names, Y)

\* C5: when a statement fails, recovery discards the input up to and including that
\* statement's own ';' and nothing beyond it, whether or not the ';' had been read as
\* a lookahead and pushed back.
C5_OnlyFailedStatementDiscarded ==
    [][(StatementStep /\ Thrown(out'.err) /\ OnlyPrint(buffer))
       => (OnlyPrint(buffer') /\ cin' = AfterStatement(Pending))]_vars

\* C5: what the code does on "y; 2;" with y undefined: both statements are gone
C5_NextStatementDiscarded ==
    /\ out.event = "statement"
    /\ out.err = error_sn("get: undefined name ", Y)
    /\ names = <<>>
    /\ buffer = <<>>
    /\ cin = <<LxNL>>

(***************************************************************************)
(* Properties of the environment under statements and loads (Spec).        *)
(***************************************************************************)
\* a pass of the loop of load_env() over a line that names a declared entry
ConflictStep ==
    /\ pc = "load"
    /\ loadLines # <<>>
    /\ loadLines' = Tail(loadLines)
    /\ Head(loadLines)[1].k = "word"
    /\ is_declared(names, Head(loadLines)[1].s)

\* C4: once an entry is const, its value and its const flag change only in a step
\* that is a load conflict for that name resolved as "overwrite".
C4_ConstChangesOnlyByOverwrite ==
    [][\A n \in DOMAIN names :
         names[n].is_const
         => \/ is_declared(names', n) /\ names'[n] = names[n]
            \/ ConflictStep /\ out'.event = "overwrite" /\ out'.name = n]_vars

\* a const entry has just survived a "keep" of a conflicting line of the file
C4_ConstKept ==
    /\ out.event = "keep"
    /\ out.name = X
    /\ out.val = Rat(5)
    /\ names[X] = Value(X, Rat(2), TRUE)

\* C10: a loaded line that names a declared entry is resolved in one of three ways:
\* "keep" leaves the environment unchanged; "overwrite" replaces that entry's value
\* and const flag with the incoming ones and changes no other entry; "rename" leaves
\* every existing entry unchanged and adds exactly one entry, under a new name, that
\* holds the incoming value and const flag.
C10_ConflictResolutions ==
    [][ConflictStep
       => LET line == Head(loadLines)
              n == line[1].s
              incoming(k) == Value(k, out'.val, out'.is_const)
          IN  /\ out'.name = n
              /\ Len(line) = 6 => out'.val = line[3].v /\ out'.is_const = (line[6].v # Zero)
              /\ out'.event \in {"keep", "overwrite", "rename"}
              /\ out'.event = "keep" => names' = names
              /\ out'.event = "overwrite"
                 => /\ DOMAIN names' = DOMAIN names
                    /\ names'[n] = incoming(n)
                    /\ \A k \in DOMAIN names \ {n} : names'[k] = names[k]
              /\ out'.event = "rename"
                 => /\ out'.target \notin DOMAIN names
                    /\ DOMAIN names' = DOMAIN names \cup {out'.target}
                    /\ names'[out'.target] = incoming(out'.target)
                    /\ \A k \in DOMAIN names : names'[k] = names[k]]_vars

\* x = 1 with x = 5 in the file, resolved as "rename": x = 1 and x_file = 5
C10_Renamed ==
    /\ out.event = "rename"
    /\ out.name = X
    /\ out.target = X \o T_file
    /\ names[X] = Value(X, One, FALSE)
    /\ names[X \o T_file] = Value(X \o T_file, Rat(5), FALSE)

(***************************************************************************)
(* The token stream on its own: any caller's get, unget and ignore.        *)
(***************************************************************************)
TSTokens == {TokenNumber(One), TokenChar("+"), TokenKind("print"), TokenKind("quit")}

TSLines ==
    { <<LxNum(Rat(2)), LxCh("*"), LxWord(X)>> \o End,
      <<LxWord(W_quit)>> }

InitTS ==
    /\ names = <<>>
    /\ current_precision = 6
    /\ current_filename = <<>>
    /\ buffer = <<>>
    /\ cin = <<>>
    /\ files = <<>>
    /\ pc = "ts"
    /\ loadLines = <<>>
    /\ out = OutNone

TSType ==
    /\ PendingLines(cin) < MaxPending
    /\ \E line \in TSLines : cin' = cin \o line \o <<LxNL>>
    /\ out' = [OutNone EXCEPT !.event = "typed"]
    /\ UNCHANGED <<names, current_precision, current_filename, buffer, files, pc, loadLines>>

\* what a call of the token stream leaves
TSDone(r, event) ==
    /\ Runs(r.err)
    /\ buffer' = r.st.buffer
    /\ cin' = r.st.cin
    /\ out' = [OutNone EXCEPT !.event = event, !.tok = r.tok, !.err = r.err]
    /\ UNCHANGED <<names, current_precision, current_filename, files, pc, loadLines>>

\* Token t = ts.get()
TSGet == TSDone(get(StateOf(buffer, cin, names, current_filename)), "get")

\* ts.unget(t)
TSUnget ==
    /\ Len(buffer) < MaxBuffer
    /\ \E t \in TSTokens :
         TSDone(RetTok(unget(StateOf(buffer, cin, names, current_filename), t), t), "unget")

\* ts.ignore()
TSIgnore == TSDone(ignore(StateOf(buffer, cin, names, current_filename)), "ignore")

NextTS == TSType \/ TSGet \/ TSUnget \/ TSIgnore

SpecTS == InitTS /\ [][NextTS]_vars

\* C6: after unget(t) the next get() returns t, whatever is pending: a pushed-back
\* token goes to the front of the pending tokens.
C6_UngetGoesToFront ==
    [][(out.event = "unget" /\ out'.event = "get") => out'.tok = out.tok]_vars

\* C6, as the code has it: unget(t) puts t behind the pending tokens, and the get()
\* that follows returns the oldest pending token, which is t when nothing else was
\* pending.
C6_UngetGoesToBack ==
    [][(out.event = "unget" /\ out'.event = "get")
       => (/\ buffer # <<>>
           /\ buffer[Len(buffer)] = out.tok
           /\ out'.tok = Head(buffer)
           /\ buffer' = Tail(buffer)
           /\ Len(buffer) = 1 => out'.tok = out.tok)]_vars

\* get() has returned the older token 1 while the token + pushed back after it waits
C6_OlderTokenReturned ==
    /\ out.event = "get"
    /\ out.tok = TokenNumber(One)
    /\ buffer = <<TokenChar("+")>>
    /\ cin = <<>>

(***************************************************************************)
(* expression() on its own: one call on an input drawn from three families *)
(* (arithmetic expressions, terms with / and %, function calls).           *)
(***************************************************************************)
Literals == {Rat(2), Rat(3), Rat(4)}
ArithOps == {"+", "-", "*", "/"}

\* the well-formed expressions of exactly n lexemes
RECURSIVE ArithOfLen(_)
ArithOfLen(n) ==
    IF n < 1 THEN {}
    ELSE IF n = 1 THEN { <<LxNum(v)>> : v \in Literals }
    ELSE { <<LxCh("(")>> \o e \o <<LxCh(")")>> : e \in ArithOfLen(n - 2) }
         \cup UNION { { a \o <<LxCh(op)>> \o b :
                          a \in ArithOfLen(i), op \in ArithOps, b \in ArithOfLen(n - 1 - i) } :
                      i \in 1..(n - 2) }

ArithExprs == UNION { ArithOfLen(n) : n \in 1..MaxExprLen }

\* the operands of a term, each with the value it has in EvalNames
Operand(text, val) == [text |-> text, val |-> val]
Operands ==
    { Operand(<<LxNum(Zero)>>, Zero),
      Operand(<<LxNum(Rat(2))>>, Rat(2)),
      Operand(<<LxNum(Rat(3))>>, Rat(3)),
      Operand(<<LxNum(<<1, 2>>)>>, <<1, 2>>),
      Operand(<<LxWord(X)>>, Zero),
      Operand(<<LxWord(Y)>>, Rat(2)),
      Operand(<<LxCh("-"), LxNum(Rat(3))>>, Rat(-3)),
      Operand(<<LxCh("("), LxNum(Rat(2)), LxCh("-"), LxNum(Rat(2)), LxCh(")")>>, Zero) }

TermExpr(l, op, r) == l.text \o <<LxCh(op)>> \o r.text
TermExprs == { TermExpr(l, op, r) : l \in Operands, op \in {"/", "%"}, r \in Operands }

\* the function names, each with the libm function the language gives it
UnaryFunctions ==
    { <<W_sin, "sin">>, <<W_cos, "cos">>, <<W_tan, "tan">>, <<W_asin, "asin">>,
      <<W_acos, "acos">>, <<W_atan, "atan">>, <<W_exp, "exp">>, <<W_ln, "log">>,
      <<W_log10, "log10">>, <<W_log2, "log2">> }
FunctionNames == { f[1] : f \in UnaryFunctions } \cup {W_pow}
LibmOf(name) == (CHOOSE f \in UnaryFunctions : f[1] = name)[2]

Arguments == {Zero, One, Rat(2)}
\* what may stand where ')' or ',' is expected
BadLexemes == {LxCh(";"), LxCh("="), LxCh("("), LxNum(One), LxWord(X)}

CallOne(f, a) == <<LxWord(f), LxCh("("), LxNum(a), LxCh(")")>>
CallTwo(f, a, b) == <<LxWord(f), LxCh("("), LxNum(a), LxCh(","), LxNum(b), LxCh(")")>>
CallOneBad(f, a, z) == <<LxWord(f), LxCh("("), LxNum(a), z>>
CallTwoBad(f, a, b, z) == <<LxWord(f), LxCh("("), LxNum(a), LxCh(","), LxNum(b), z>>

CallExprs ==
    { CallOne(f, a) : f \in FunctionNames, a \in Arguments }
    \cup { CallTwo(f, a, b) : f \in FunctionNames, a \in Arguments, b \in Arguments }
    \cup { CallOneBad(f, a, z) : f \in FunctionNames, a \in Arguments, z \in BadLexemes }
    \cup { CallTwoBad(f, a, One, z) : f \in FunctionNames, a \in Arguments, z \in BadLexemes }

\* the line typed: the expression, ';' and return
Line(e) == e \o End \o <<LxNL>>

EvalNames == (X :> Value(X, Zero, FALSE)) @@ (Y :> Value(Y, Rat(2), FALSE))

InitEval ==
    /\ names = EvalNames
    /\ current_precision = 6
    /\ current_filename = <<>>
    /\ buffer = <<>>
    /\ cin \in { Line(e) : e \in ArithExprs \cup TermExprs \cup CallExprs }
    /\ files = <<>>
    /\ pc = "eval"
    /\ loadLines = <<>>
    /\ out = [OutNone EXCEPT !.input = cin]

EvalDone(r) ==
    /\ Runs(r.err)
    /\ names' = r.st.names
    /\ buffer' = r.st.buffer
    /\ cin' = r.st.cin
    /\ pc' = "evaluated"
    /\ out' = [out EXCEPT !.event = "expression", !.val = r.val, !.err = r.err]
    /\ UNCHANGED <<current_precision, current_filename, files, loadLines>>

\* double d = expression();
Eval ==
    /\ pc = "eval"
    /\ EvalDone(expression(StateOf(buffer, cin, names, current_filename)))

NextEval == Eval

SpecEval == InitEval /\ [][NextEval]_vars

(***************************************************************************)
(* Properties of expression() (SpecEval).                                  *)
(***************************************************************************)
Evaluated(e) == pc = "evaluated" /\ out.input = Line(e)

\* the whole expression was read: the ';' after it is the lookahead pushed back
ReadToEnd == buffer = <<TokenKind("print")>> /\ cin = <<LxNL>>

DivideByZero == error("divide by zero")

\* C7: in a term, / and % fail with "divide by zero" exactly when the right operand
\* evaluates to 0, whatever the left operand is; with a nonzero right operand they
\* give the quotient or the remainder, which is 0 for a left operand of 0.
C7_DivideByZeroExactlyOnZero ==
    \A l \in Operands, r \in Operands, op \in {"/", "%"} :
      Evaluated(TermExpr(l, op, r))
      => /\ (r.val = Zero) <=> (out.err = DivideByZero)
         /\ r.val # Zero
            => /\ out.err = NoErr
               /\ ReadToEnd
               /\ op = "/" => Mul(out.val, r.val) = l.val
               /\ op = "%" => out.val = fmod(l.val, r.val)
               /\ l.val = Zero => out.val = Zero

\* 0 % x with x = 0 has failed
C7_ZeroByZero ==
    /\ Evaluated(TermExpr(Operand(<<LxNum(Zero)>>, Zero), "%", Operand(<<LxWord(X)>>, Zero)))
    /\ out.err = DivideByZero

\* The reference evaluation: * and / bind tighter than + and -, operators of equal
\* precedence associate to the left, parentheses override precedence.
Depth(e, i) ==
    Cardinality({j \in 1..(i - 1) : e[j] = LxCh("(")})
    - Cardinality({j \in 1..(i - 1) : e[j] = LxCh(")")})
TopLevel(e, ops) ==
    {i \in 1..Len(e) : e[i].k = "ch" /\ e[i].c \in ops /\ Depth(e, i) = 0}
Last(S) == CHOOSE i \in S : \A j \in S : j <= i

RefValue(v) == [val |-> v, err |-> IF Representable(v) THEN "" ELSE "range"]
RefApply(op, l, r) ==
    IF l.err # "" THEN l
    ELSE IF r.err # "" THEN r
    ELSE CASE op = "+" -> RefValue(Add(l.val, r.val))
           [] op = "-" -> RefValue(Sub(l.val, r.val))
           [] op = "*" -> RefValue(Mul(l.val, r.val))
           [] op = "/" -> IF r.val = Zero THEN [val |-> Zero, err |-> "divide by zero"]
                          ELSE RefValue(Div(l.val, r.val))

RECURSIVE RefEval(_)
RefSplit(e, i) ==
    RefApply(e[i].c, RefEval(SubSeq(e, 1, i - 1)), RefEval(SubSeq(e, i + 1, Len(e))))
RefEval(e) ==
    IF TopLevel(e, {"+", "-"}) # {} THEN RefSplit(e, Last(TopLevel(e, {"+", "-"})))
    ELSE IF TopLevel(e, {"*", "/"}) # {} THEN RefSplit(e, Last(TopLevel(e, {"*", "/"})))
    ELSE IF e[1] = LxCh("(") THEN RefEval(SubSeq(e, 2, Len(e) - 1))
    ELSE RefValue(e[1].v)

C9_FunctionArity ==
    \A f \in FunctionNames, a \in Arguments :
      /\ Evaluated(CallOne(f, a))
         => IF f = W_pow THEN out.err = error_ns(f, " needs two arguments")
            ELSE out.err = NoErr /\ out.val = Libm(LibmOf(f), a) /\ ReadToEnd
      /\ \A b \in Arguments :
           Evaluated(CallTwo(f, a, b))
           => IF f = W_pow THEN out.err = NoErr /\ out.val = IntPow(a, b[1]) /\ ReadToEnd
              ELSE out.err = error_ns(f, " needs only one argument")
      /\ \A z \in BadLexemes :
           (Evaluated(CallOneBad(f, a, z)) \/ Evaluated(CallTwoBad(f, a, One, z)))
           => out.err = error("')' expected")

\* sin(0, 1) has failed
C9_TooManyArguments ==
    /\ Evaluated(CallTwo(W_sin, Zero, One))
    /\ out.err = error_ns(W_sin, " needs only one argument")

(***************************************************************************)
(* Save and load again: a process holding an environment saves it to f and *)
(* ends; a new process, whose environment is empty, loads f.               *)
(***************************************************************************)
RoundValues == {Rat(2), Rat(-3), <<1, 4>>, <<1, 3>>, Inf}

\* the environments over a set of names
EnvsOver(S) ==
    { [n \in S |-> Value(n, e[n][1], e[n][2])] : e \in [S -> RoundValues \X BOOLEAN] }
RoundEnvs == EnvsOver({X}) \cup EnvsOver({Y}) \cup EnvsOver({X, Y})

SaveEnv(f) == <<LxWord(W_save), LxSP, LxWord(W_env), LxSP, LxWord(f)>> \o End
Answer(k) == <<LxNum(Rat(k))>>

\* the first process: the environment, "save env f;" and the answer typed
InitRound ==
    /\ names \in RoundEnvs
    /\ current_precision = 6
    /\ current_filename = <<>>
    /\ buffer = <<>>
    /\ \E k \in 1..3 : cin = SaveEnv(F) \o <<LxNL>> \o Answer(k) \o <<LxNL>>
    /\ files = <<>>
    /\ pc = "calc"
    /\ loadLines = <<>>
    /\ out = [OutNone EXCEPT !.event = "started", !.input = names]

RoundCalculateDone(r) ==
    /\ Runs(r.err)
    /\ r.pc # "blocked"
    /\ names' = r.st.names
    /\ current_precision' = r.precision
    /\ current_filename' = r.st.current_filename
    /\ buffer' = r.st.buffer
    /\ cin' = r.st.cin
    /\ files' = r.files
    /\ pc' = r.pc
    /\ loadLines' = r.loadLines
    /\ out' = [OutNone EXCEPT !.event = r.event, !.val = r.val, !.err = r.err,
                             !.input = out.input]

\* one pass of the loop of calculate()
RoundCalculate ==
    /\ pc = "calc"
    /\ \E u \in Indeterminate :
         RoundCalculateDone(calculate(StateOf(buffer, cin, names, current_filename),
                                      current_precision, files, u))

\* the process ends and a new one starts: "load env f;" and the answer typed
RoundRestart ==
    /\ pc = "calc"
    /\ out.event = "save_env"
    /\ out.err = NoErr
    /\ names' = <<>>
    /\ current_precision' = 6
    /\ current_filename' = <<>>
    /\ buffer' = <<>>
    /\ \E k \in 1..2 : cin' = LoadEnv(F) \o <<LxNL>> \o Answer(k) \o <<LxNL>>
    /\ out' = [OutNone EXCEPT !.event = "restarted", !.input = out.input]
    /\ UNCHANGED <<files, pc, loadLines>>

RoundLoadLineDone(r) ==
    /\ Runs(r.err)
    /\ names' = r.names
    /\ cin' = r.cin
    /\ loadLines' = Tail(loadLines)
    /\ out' = [OutNone EXCEPT !.event = r.event, !.val = r.value, !.name = r.name,
                             !.is_const = r.is_const, !.target = r.target,
                             !.input = out.input]

\* one pass of the loop of load_env() over the entries
RoundLoadLine ==
    /\ pc = "load"
    /\ loadLines # <<>>
    /\ \E uv \in UninitDoubles, ub \in BOOLEAN :
         RoundLoadLineDone(load_entry(names, cin, Head(loadLines), uv, ub))
    /\ UNCHANGED <<current_precision, current_filename, buffer, files, pc>>

\* in.close(); "Environment loaded from ..."
RoundLoadEnd ==
    /\ pc = "load"
    /\ loadLines = <<>>
    /\ pc' = "loaded"
    /\ out' = [OutNone EXCEPT !.event = "loaded", !.input = out.input]
    /\ UNCHANGED <<names, current_precision, current_filename, buffer, cin, files, loadLines>>

NextRound == RoundCalculate \/ RoundRestart \/ RoundLoadLine \/ RoundLoadEnd

SpecRound == InitRound /\ [][NextRound]_vars

\* the precision the file was saved with
SavedPrecision == files[F][1][3].v[1]

\* a is b written with p fractional digits: within half a unit of the last digit
WithinRounding(a, b, p) ==
    IF ~IsFinite(b) \/ p > 6 THEN a = b
    ELSE IsFinite(a) /\ 2 * Abs(a[1] * b[2] - b[1] * a[2]) * Pow10(p) <= a[2] * b[2]

SameAsSaved ==
    /\ DOMAIN names = DOMAIN out.input
    /\ \A n \in DOMAIN names :
         /\ names[n].name = n
         /\ names[n].is_const = out.input[n].is_const
         /\ WithinRounding(names[n].value, out.input[n].value, SavedPrecision)

NoConflictInLoad ==
    pc = "load" /\ loadLines # <<>> => ~is_declared(names, FieldText(Head(loadLines)[1]))

\* C11: saving a non-empty environment and loading the file into an empty one gives
\* the same names, each with the same const flag and the same value up to the
\* rounding of the save precision, and the load meets no conflict.
C11_RoundTrip ==
    /\ NoConflictInLoad
    /\ pc = "loaded" => SameAsSaved

\* C11, for the environments the code does bring back: those whose values are all
\* finite.  (A value that is not finite is written as inf; the load reads it as 0 and
\* leaves the const flag of that entry to an int that was never written.)
C11_RoundTripFinite ==
    (\A n \in DOMAIN out.input : IsFinite(out.input[n].value))
    => /\ NoConflictInLoad
       /\ pc = "loaded" => SameAsSaved

\* x = 1/3 (const) and y = -3 came back from a file saved with 6 digits
C11_ThirdCameBack ==
    /\ pc = "loaded"
    /\ out.input = (X :> Value(X, <<1, 3>>, TRUE)) @@ (Y :> Value(Y, Rat(-3), FALSE))
    /\ names[X] = Value(X, <<333333, 1000000>>, TRUE)
    /\ names[Y] = Value(Y, Rat(-3), FALSE)

(***************************************************************************)
(* A session that sets the precision: "set precision ..." typed, and files *)
(* whose header precision the user may apply.                              *)
(***************************************************************************)
SetPrecision(arg) == <<LxWord(W_set), LxSP, LxWord(W_precision), LxSP>> \o arg \o End

\* what is typed after "set precision", and the number N that it writes; an answer
\* to the menu of load_env is typed with a ';', which ends the drain of the recovery
\* when the header is refused
Typed(arg, N) == [text |-> arg, N |-> N]
TypedNumbers ==
    { Typed(<<LxNum(v)>>, v) : v \in {Zero, Rat(5), Rat(20), Rat(21), <<5, 2>>, <<41, 2>>, Huge} }
    \cup { Typed(<<LxCh("-"), LxNum(One)>>, Rat(-1)) }

PrecisionLines ==
    { SetPrecision(t.text) : t \in TypedNumbers }
    \cup { SetPrecision(<<LxWord(X)>>), LoadEnv(F), Answer(1) \o End, Answer(2) \o End }

PrecisionHeaders ==
    { Header(12), Header(25), Header(-3), <<LxWord(T_Precision), LxCh("="), LxNum(<<5, 2>>)>>,
      <<LxWord(T_Precision), LxCh("="), LxWord(X)>>, <<LxWord(T_Precision)>> }

InitPrecision ==
    /\ names = <<>>
    /\ current_precision = 6
    /\ current_filename = <<>>
    /\ buffer = <<>>
    /\ cin = <<>>
    /\ \E h \in PrecisionHeaders, body \in {<<>>, <<Entry(X, Rat(5), 0)>>} :
         files = (F :> (<<h>> \o body))
    /\ pc = "calc"
    /\ loadLines = <<>>
    /\ out = OutNone

TypePrecision == TypeLine(PrecisionLines)

NotedCalculateDone(r, inp) ==
    /\ Runs(r.err)
    /\ r.pc # "blocked"
    /\ names' = r.st.names
    /\ current_precision' = r.precision
    /\ current_filename' = r.st.current_filename
    /\ buffer' = r.st.buffer
    /\ cin' = r.st.cin
    /\ files' = r.files
    /\ pc' = r.pc
    /\ loadLines' = r.loadLines
    /\ out' = [OutNone EXCEPT !.event = r.event, !.val = r.val, !.err = r.err,
                             !.input = inp]

\* one pass of the loop of calculate(); out.input notes the input it found
NotedCalculate ==
    /\ pc = "calc"
    /\ \E u \in Indeterminate :
         NotedCalculateDone(calculate(StateOf(buffer, cin, names, current_filename),
                                          current_precision, files, u),
                                SkipDone(cin))

NextPrecision == TypePrecision \/ NotedCalculate \/ LoadLine \/ LoadEnd

SpecPrecision == InitPrecision /\ [][NextPrecision]_vars

RangeError == error("Precision must be between 0 and 20")

\* the pending input is "set precision" followed by arg and ';'
SetPrecisionPending(arg) ==
    /\ OnlyPrint(buffer)
    /\ Len(Pending) >= Len(SetPrecision(arg))
    /\ SubSeq(Pending, 1, Len(SetPrecision(arg))) = SetPrecision(arg)

\* a pass of calculate() that ran set_precision()
SetPrecisionStep == pc = "calc" /\ out'.event = "set_precision"

\* the pass of calculate() found this line first in its input
InputWas(line) == Len(out.input) >= Len(line) /\ SubSeq(out.input, 1, Len(line)) = line

\* the number v is in [0, 20]
InRange(v) == v # Huge /\ v[1] >= 0 /\ v[1] <= 20 * v[2]

Refused(e) == out'.err = e /\ current_precision' = current_precision
Accepted(d) == out'.err = NoErr /\ current_precision' = d

\* C12: "set precision N" with N outside [0,20] fails with the out-of-range error and
\* leaves the precision as it was; with N inside [0,20] it sets the precision to N.
C12_RangeOfN ==
    [][\A t \in TypedNumbers :
         SetPrecisionStep /\ SetPrecisionPending(t.text)
         => IF InRange(t.N) THEN out'.err = NoErr /\ Rat(current_precision') = t.N
            ELSE Refused(RangeError)]_vars

\* C12, as the code has it: the number token after "set precision" is cut to its
\* integer part d; d in [0,20] becomes the precision, any other d (that of a number
\* beyond the range of int included) is the out-of-range error; when no number token
\* follows, as for a negative N, whose '-' is a token of its own, the error is that a
\* number was expected.  Every error leaves the precision as it was.
C12_RangeOfIntegerPart ==
    [][\A t \in TypedNumbers \cup {Typed(<<LxWord(X)>>, Zero)} :
         SetPrecisionStep /\ SetPrecisionPending(t.text)
         => IF t.text[1].k # "num"
            THEN Refused(error("Expected a number after 'set precision'"))
            ELSE IF t.N # Huge /\ Trunc(t.N[1], t.N[2]) \in 0..20
            THEN Accepted(Trunc(t.N[1], t.N[2]))
            ELSE Refused(RangeError)]_vars

\* "set precision 20.5;" was accepted and the precision is 20
C12_FractionAccepted ==
    /\ out.event = "set_precision"
    /\ InputWas(SetPrecision(<<LxNum(<<41, 2>>)>>))
    /\ out.err = NoErr
    /\ current_precision = 20

\* C19: the precision is an integer in [0, 20] in every reachable state.
C19_PrecisionInRange == current_precision \in 0..20

\* a load whose header says 25 was answered 1: the precision is the one before
C19_HeaderRefused ==
    /\ out.event = "load_env"
    /\ out.err = RangeError
    /\ InputWas(LoadEnv(F) \o <<LxNL>> \o Answer(1))
    /\ files[F][1] = Header(25)
    /\ current_precision = 20

(***************************************************************************)
(* Properties of the loop of load_env over the entries (Spec).             *)
(***************************************************************************)
\* the line has the form  name = value is_const = 0|1
WellFormed(line) ==
    /\ Len(line) = 6
    /\ line[1].k = "word"
    /\ line[2] = LxCh("=")
    /\ line[3].k = "num"
    /\ line[4] = LxWord(T_is_const)
    /\ line[5] = LxCh("=")
    /\ line[6] \in {LxNum(Zero), LxNum(One)}

\* a pass of the loop of load_env over the entries
LoadLineStep == pc = "load" /\ loadLines # <<>> /\ loadLines' = Tail(loadLines)

\* C13: a line after the header that is malformed is skipped: it defines no entry,
\* changes no entry and raises no conflict, and the loop goes on with the next line.
C13_MalformedSkipped ==
    [][LoadLineStep /\ ~WellFormed(Head(loadLines))
       => /\ names' = names
          /\ out'.event = "skip"
          /\ pc' = "load"]_vars

\* the line "y" declared y, const, with the value an unwritten double held
C13_NameOnlyDefined ==
    /\ out.event = "define"
    /\ out.name = Y
    /\ Y \in DOMAIN names
    /\ names[Y] = Value(Y, Rat(9), TRUE)

\* the name is one Token_stream::get reads as a name: a letter, then letters and digits
Lexable(n) ==
    /\ n # <<>>
    /\ isalpha(n[1])
    /\ \A i \in 1..Len(n) : isalpha(n[i]) \/ isdigit(n[i])

\* C14: in every reachable state every name of the environment is alphanumeric and
\* starts with a letter, so that the lexer can read it as a name.
C14_NamesLexable == \A n \in DOMAIN names : Lexable(n)

\* the names "rename" may give to an entry of the file called name
RenamedFrom(name) ==
    { name \o T_file } \cup { name \o T_file \o to_string(k) : k \in 1..MaxNames }

\* C14, as the code has it: a name that enters the environment is alphanumeric and
\* starts with a letter, or it comes from a load: the first field of a line of the
\* file as it is, or, by "rename", that field with _file or _file<k> appended, which
\* holds a '_' and is no name the lexer reads.
C14_NamesLexableOrLoaded ==
    [][\A n \in DOMAIN names' \ DOMAIN names :
         \/ Lexable(n)
         \/ /\ LoadLineStep
            /\ out'.event = "define"
            /\ n = FieldText(Head(loadLines)[1])
         \/ /\ LoadLineStep
            /\ out'.event = "rename"
            /\ n \in RenamedFrom(FieldText(Head(loadLines)[1]))]_vars

\* "rename" has declared x_file, which the lexer reads as x followed by a bad token
C14_UnreadableName ==
    /\ out.event = "rename"
    /\ out.target \in DOMAIN names
    /\ ~Lexable(out.target)
    /\ get(StateOf(<<>>, <<LxWord(X), LxCh("_"), LxWord(<<"f", "i", "l", "e">>)>> \o End,
                   names, current_filename)).tok = TokenName(X)

\* C15: no operation removes an entry: the names declared after a step include the
\* names declared before it.
C15_NamesOnlyGrow == [][DOMAIN names \subseteq DOMAIN names']_vars

\* a statement failed and a load renamed: x and x_file are still declared
C15_DeclaredAfterFailure ==
    /\ out.event = "statement"
    /\ Thrown(out.err)
    /\ {X, X \o T_file} \subseteq DOMAIN names

\* the k-th name of the sequence N_file, N_file1, N_file2, ...
Candidate(N, k) == N \o T_file \o (IF k = 0 THEN <<>> ELSE to_string(k))

\* C16: "rename" stores the incoming entry under the first undeclared name of
\* N_file, N_file1, N_file2, ...; it adds that entry and changes no other, and the
\* search ends after at most as many names as the environment holds.
C16_RenameFirstFree ==
    [][LoadLineStep /\ out'.event = "rename"
       => \E k \in 0..Cardinality(DOMAIN names) :
            /\ out'.target = Candidate(out'.name, k)
            /\ out'.target \notin DOMAIN names
            /\ \A j \in 0..(k - 1) : Candidate(out'.name, j) \in DOMAIN names
            /\ DOMAIN names' = DOMAIN names \cup {out'.target}
            /\ names'[out'.target] = Value(out'.target, out'.val, out'.is_const)
            /\ \A n \in DOMAIN names : names'[n] = names[n]]_vars

\* a second "rename" of x found x_file declared and took x_file1; x_file is as before
C16_SecondRename ==
    /\ out.event = "rename"
    /\ out.name = X
    /\ out.target = X \o T_file \o <<"1">>
    /\ {X, X \o T_file, out.target} \subseteq DOMAIN names

\* the lines of the file being loaded that the loop has passed
Passed ==
    LET file == files[current_filename]
    IN  SubSeq(file, 2, Len(file) - Len(loadLines))

\* C18: a load merges: a pass of the loop leaves every entry whose name is not the
\* name of its line as it was; a well-formed line whose name is not declared defines
\* that name with the value and the const flag of the line; a line whose name is
\* already on an earlier line of the file is a conflict.
C18_LoadMerges ==
    [][LoadLineStep /\ Head(loadLines) # <<>>
       => LET line == Head(loadLines)
              name == FieldText(line[1])
          IN  /\ \A n \in DOMAIN names \ {name} :
                   n \in DOMAIN names' /\ names'[n] = names[n]
              /\ WellFormed(line) /\ ~is_declared(names, name)
                 => /\ out'.event = "define"
                    /\ names' = define_name(names, name, line[3].v, line[6] = LxNum(One))
              /\ (\E i \in 1..Len(Passed) : Passed[i] # <<>> /\ FieldText(Passed[i][1]) = name)
                 => out'.event \in {"keep", "overwrite", "rename"}]_vars

\* the file holds x = 5 and then x = 7 const: x was declared by the first line, the
\* second was a conflict resolved as "overwrite"; y, which the file does not name,
\* would be as before
C18_SecondOccurrence ==
    /\ out.event = "overwrite"
    /\ files[current_filename] = <<Header(6), Entry(X, Rat(5), 0), Entry(X, Rat(7), 1)>>
    /\ loadLines = <<>>
    /\ names = (X :> Value(X, Rat(7), TRUE))

(***************************************************************************)
(* A session of statements that begin with a name, each pass of calculate  *)
(* noting the input it found.                                              *)
(***************************************************************************)
LookaheadLines ==
    { Assign(X, <<LxNum(Rat(2))>>),
      Assign(Y, <<LxNum(Rat(3)), LxCh("-"), LxWord(X)>>),
      <<LxWord(X)>> \o End,
      <<LxWord(Y)>> \o End,
      <<LxWord(X), LxCh("+"), LxNum(One)>> \o End,
      <<LxWord(X), LxSP, LxNum(One)>> \o End,
      <<LxNum(Rat(2))>> \o End,
      <<LxWord(W_quit)>> }

TypeLookahead == TypeLine(LookaheadLines)

NextLookahead == TypeLookahead \/ NotedCalculate

SpecLookahead == InitStatements /\ [][NextLookahead]_vars

\* the pending statement read by the parser itself, with nothing pushed back
Unread == StateOf(<<>>, Pending, names, current_filename)
SecondToken == get(get(Unread).st)
Direct == IF is_symbol(SecondToken.tok, "=") THEN assign(Unread) ELSE expression(Unread)

\* C17: for a statement that begins with a name, statement() reads one more token and
\* pushes both back in their order: the outcome is that of assign() when the token is
\* '=' and of expression() otherwise, each reading the statement from its first token;
\* a ';' read as the lookahead is still the next token after the statement.
C17_LookaheadPushedBack ==
    [][(/\ StatementStep
        /\ OnlyPrint(buffer)
        /\ Len(Pending) >= 2
        /\ Pending[1] \in {LxWord(X), LxWord(Y)}
        /\ SecondToken.err = NoErr)
       => /\ out'.val = Direct.val
          /\ out'.err = Direct.err
          /\ names' = Direct.st.names
          /\ Direct.err = NoErr => buffer' = Direct.st.buffer /\ cin' = Direct.st.cin
          /\ Direct.err = NoErr /\ SecondToken.tok.kind = "print"
             => buffer' = <<TokenKind("print")>>]_vars

\* "y;" with y declared gave the value of y, and the ';' is the next token
C17_NameThenPrint ==
    /\ out.event = "statement"
    /\ InputWas(<<LxWord(Y)>> \o End)
    /\ out.err = NoErr
    /\ Y \in DOMAIN names
    /\ out.val = names[Y].value
    /\ buffer = <<TokenKind("print")>>

(***************************************************************************)
(* A session in which quit is typed inside statements that fail.           *)
(***************************************************************************)
RecoveryLines ==
    { <<LxWord(Y), LxSP, LxWord(W_quit)>>,
      <<LxNum(One), LxCh("/"), LxNum(Zero), LxSP, LxWord(W_quit)>>,
      <<LxNum(Rat(2)), LxSP, LxWord(W_quit)>>,
      <<LxNum(One), LxCh("/"), LxNum(Zero)>> \o End \o <<LxSP, LxWord(W_quit)>>,
      Assign(Y, <<LxNum(Rat(2))>>),
      <<LxNum(Rat(2))>> \o End,
      <<LxWord(W_quit)>> }

TypeRecovery == TypeLine(RecoveryLines)

NextRecovery == TypeRecovery \/ NotedCalculate

SpecRecovery == InitStatements /\ [][NextRecovery]_vars

\* quit is typed in the input before any ';'
RECURSIVE QuitBeforePrint(_)
QuitBeforePrint(inp) ==
    /\ inp # <<>>
    /\ Head(inp) # LxCh(";")
    /\ (Head(inp) = LxWord(W_quit) \/ QuitBeforePrint(Tail(inp)))

\* the next token calculate() will act on is quit
QuitNext ==
    LET g == skip_print(get(StateOf(buffer, cin, names, current_filename)))
    IN  g.err = NoErr /\ g.tok.kind = "quit"

\* a pass of calculate() that threw and recovered
FailedStep == pc = "calc" /\ out'.event \notin {"typed", "none"} /\ Thrown(out'.err)

\* C20: when a statement fails and a quit stands before the next ';', the recovery
\* stops at the quit and does not lose it: quit is the next token, so the session
\* ends on it.
C20_QuitSurvivesRecovery ==
    [][FailedStep /\ OnlyPrint(buffer) /\ QuitBeforePrint(Pending) => QuitNext']_vars

\* "y quit" with y undefined: the quit that statement() had pushed back is gone, the
\* session goes on and waits for input
C20_PushedBackQuitLost ==
    /\ out.event = "statement"
    /\ out.err = error_sn("get: undefined name ", Y)
    /\ InputWas(<<LxWord(Y), LxSP, LxWord(W_quit), LxNL>>)
    /\ pc = "calc"
    /\ buffer = <<>>
    /\ ~QuitNext

(***************************************************************************)
(* A session of statements that fail, each pass of calculate noting the    *)
(* input it found.                                                         *)
(***************************************************************************)
ThreeMinusX == <<LxNum(Rat(3)), LxCh("-"), LxWord(X)>>
OneByZero == <<LxNum(One), LxCh("/"), LxNum(Zero)>>

FailureLines ==
    { Assign(X, <<LxNum(Rat(2))>>),
      Assign(X, ThreeMinusX),
      Assign(X, OneByZero),
      Assign(X, <<LxWord(W_sin), LxCh("("), LxNum(One), LxCh(","), LxNum(One), LxCh(")")>>),
      Const(Y, <<LxNum(One)>>),
      Const(X, <<LxNum(One)>>),
      Assign(Y, <<LxNum(Rat(2))>>),
      <<LxWord(Y)>> \o End,
      OneByZero \o End }

TypeFailure == TypeLine(FailureLines)

NextFailure == TypeFailure \/ NotedCalculate

SpecFailure == InitStatements /\ [][NextFailure]_vars

\* C21: a statement that fails has no effect: whenever statement() raises an error,
\* the environment (names, values, const flags) and the precision are what they were
\* before the statement began.
C21_FailedStatementNoEffect ==
    [][StatementStep /\ Thrown(out'.err)
       => names' = names /\ current_precision' = current_precision]_vars

\* x was 2 (x = 2 is the only statement that declares a variable x); "x = 3 - x;"
\* threw "set: undefined name x" and x is 1
C21_FailedAssignmentStored ==
    /\ out.event = "statement"
    /\ InputWas(Assign(X, ThreeMinusX))
    /\ out.err = error_sn("set: undefined name ", X)
    /\ names[X] = Value(X, One, FALSE)

====
